---- MODULE Spec2Model ----
(***************************************************************************)
(* Sikkim Tourism backend (sikkim_backend_server.js): an Express server    *)
(* over one SQLite file with three AUTOINCREMENT tables, an admin-token    *)
(* gate, and a bootstrap that creates the tables and seeds destinations.   *)
(*                                                                         *)
(* A request is handled in steps: the synchronous part of the route (gate, *)
(* validation, opening the connection, queueing the first statement), then *)
(* one step per SQLite statement together with its callback.  Statements   *)
(* of different requests run on different connections and interleave.      *)
(* Variable ev holds what the last step did towards a client: nothing, the *)
(* gate letting a request through, or the response sent.                   *)
(* The created_at columns and the ordering of the list responses are left  *)
(* out: list responses are modelled as the set of rows read.               *)
(***************************************************************************)
EXTENDS Integers, Sequences, FiniteSets, TLC

\* ---------------------------------------------------------------- bounds
\* rows the requests may insert in total (all three tables together)
MaxInserts == 2

\* request slots: the requests being handled at the same time
Slots == {1, 2}

\* ------------------------------------------------------------- constants
\* a value a request does not carry (JavaScript undefined)
NoVal == "<undefined>"
\* SQL NULL
Null == "<null>"

ADMIN_TOKEN == "change-me-to-a-secure-token"

\* what a request may carry as <<x-admin-token header, admin_token query>>
Credentials ==
    { <<NoVal, NoVal>>, <<"wrong-token", NoVal>>, <<NoVal, "wrong-token">>,
      <<"wrong-token", ADMIN_TOKEN>>, <<ADMIN_TOKEN, NoVal>>, <<NoVal, ADMIN_TOKEN>>,
      <<"", ADMIN_TOKEN>>, <<ADMIN_TOKEN, "wrong-token">> }

\* bodies of POST /api/bookings; guests 0 stands for an absent count (falsy);
\* the other optional fields (phone, destination_id, dates, notes) are absent
\* (a stored destination_id of 0 stands for NULL)
BookingBodies ==
    { [name |-> "Asha", email |-> "asha@example.com", guests |-> 0],
      [name |-> NoVal, email |-> "asha@example.com", guests |-> 0],
      [name |-> "", email |-> "asha@example.com", guests |-> 2],
      [name |-> "Asha", email |-> NoVal, guests |-> 0],
      [name |-> "Asha", email |-> "", guests |-> 0],
      [name |-> NoVal, email |-> NoVal, guests |-> 0] }

\* bodies of POST /api/contact
ContactBodies ==
    { [name |-> "Asha", email |-> "asha@example.com", message |-> "hello"],
      [name |-> NoVal, email |-> NoVal, message |-> "hello"],
      [name |-> NoVal, email |-> "", message |-> "hello"],
      [name |-> "Asha", email |-> "asha@example.com", message |-> NoVal],
      [name |-> "Asha", email |-> "asha@example.com", message |-> ""] }

\* bodies of POST /api/destinations
DestinationBodies ==
    { [name |-> n, summary |-> "Skywalk and monastery", details |-> NoVal,
       region |-> "West Sikkim", image |-> NoVal] : n \in {"Pelling", NoVal, ""} }

\* the :id path parameter, as the text the URL carries
IdParams == {"1", "4", "01", "abc"}

\* JavaScript truthiness of a text value
Truthy(v) == v \notin {NoVal, "", Null}

\* JavaScript a || b
Or(a, b) == IF Truthy(a) THEN a ELSE b

\* SQLite comparing an INTEGER PRIMARY KEY with a bound TEXT value: numeric
\* affinity turns well-formed integer text into the integer; other text
\* equals no rowid (0 here: AUTOINCREMENT rowids start at 1)
NumericAffinity(p) ==
    CASE p = "1" -> 1
      [] p = "01" -> 1
      [] p = "4" -> 4
      [] OTHER -> 0

\* ---------------------------------------------------------------- routes
GET_DESTINATIONS == "GET /api/destinations"
GET_DESTINATION == "GET /api/destinations/:id"
POST_BOOKINGS == "POST /api/bookings"
GET_BOOKINGS == "GET /api/bookings"
POST_CONTACT == "POST /api/contact"
GET_CONTACTS == "GET /api/contacts"
POST_DESTINATIONS == "POST /api/destinations"
DELETE_BOOKING == "DELETE /api/bookings/:id"
GET_HEALTH == "GET /api/health"

\* seed rows of initDb, in order: name, summary, details, region, image
seed ==
    << [name |-> "Tsomgo Lake", summary |-> "A stunning glacial lake near Gangtok",
        details |-> "Tsomgo (Changu) Lake is a glacial lake situated at 3,753 m.",
        region |-> "East Sikkim", image |-> "/images/tsomgo.jpg"],
       [name |-> "Nathula Pass", summary |-> "High altitude pass on India-China border",
        details |-> "Nathula is a historic mountain pass on the Indo-China border.",
        region |-> "East Sikkim", image |-> "/images/nathula.jpg"],
       [name |-> "Yuksom", summary |-> "Gateway to Kanchenjunga treks",
        details |-> "Yuksom is a historic town and starting point for treks.",
        region |-> "West Sikkim", image |-> "/images/yuksom.jpg"] >>

VARIABLES
    destinations,   \* rows of table destinations
    bookings,       \* rows of table bookings
    contacts,       \* rows of table contacts
    seq,            \* sqlite_sequence: per table, the largest rowid ever assigned
    boot,           \* "start" (process started, initDb not run) or "listening"
    stmtQueue,      \* seed rows queued on initDb's prepared statement, not yet run
    bootConn,       \* initDb's connection is open
    req,            \* per slot, the request being handled
    ev,             \* what the last step did towards a client
    returned,       \* history: ids carried by the 201 responses of POST /api/bookings
    created         \* history: destination id -> the row as it was inserted

vars == <<destinations, bookings, contacts, seq, boot, stmtQueue, bootConn,
          req, ev, returned, created>>

Tables == {"destinations", "bookings", "contacts"}

NoBody == [none |-> TRUE]

\* a slot no request uses
Idle == [pc |-> "idle", route |-> "", param |-> "", body |-> NoBody, lastID |-> 0]

\* the last step did nothing a client sees
NoEvent ==
    [type |-> "none", by |-> "", route |-> "", header |-> NoVal, query |-> NoVal, param |-> "",
     body |-> NoBody, lastID |-> 0, status |-> 0, error |-> "", data |-> {},
     success |-> FALSE, failed |-> FALSE, conn |-> FALSE]

Max(S) == CHOOSE x \in S : \A y \in S : y <= x

\* INTEGER PRIMARY KEY AUTOINCREMENT: one more than the largest rowid the table
\* has ever held
NextRowid(rows, last) == Max({last} \cup {r.id : r \in rows}) + 1

Init ==
    /\ destinations = {}
    /\ bookings = {}
    /\ contacts = {}
    /\ seq = [t \in Tables |-> 0]
    /\ boot = "start"
    /\ stmtQueue = <<>>
    /\ bootConn = FALSE
    /\ req = [s \in Slots |-> Idle]
    /\ ev = NoEvent
    /\ returned = {}
    /\ created = [i \in {} |-> Null]

\* ------------------------------------------------------------ access gate
\* requireAdmin without the !token test: a request with no token is let through
requireAdminNoPresenceTest(header, query) ==
    LET token == Or(header, query)
    IN  ~(Truthy(token) /\ token # ADMIN_TOKEN)

\* requireAdmin taking the query parameter first and the header as the fallback
requireAdminQueryFirst(header, query) ==
    LET token == Or(query, header)
    IN  ~(~Truthy(token) \/ token # ADMIN_TOKEN)

\* requireAdmin: TRUE when next() is called, FALSE when it answers 401
requireAdmin(header, query) ==
    LET token == Or(header, query)
    IN  ~(~Truthy(token) \/ token # ADMIN_TOKEN)

\* ------------------------------------------------------------- validation
\* the booking validation with && for ||: only a body lacking both is refused
BookingInvalidBoth(name, email) == ~Truthy(name) /\ ~Truthy(email)

\* if (!name || !email) return 400
BookingInvalid(name, email) == ~Truthy(name) \/ ~Truthy(email)

\* if (!email || !message) return 400
ContactInvalid(email, message) == ~Truthy(email) \/ ~Truthy(message)

\* if (!name) return 400
DestinationInvalid(name) == ~Truthy(name)

\* ------------------------------------------------------------ statements
\* the select without its WHERE clause: db.get gives the first row of the table
SelectFirst(rows, p) == {r \in rows : \A q \in rows : r.id <= q.id}

\* the delete without its WHERE clause: no row remains
DeleteAll(rows, p) == {}

\* SELECT * FROM destinations WHERE id=?
SelectById(rows, p) == {r \in rows : r.id = NumericAffinity(p)}

\* DELETE FROM bookings WHERE id=?  (the rows that remain)
DeleteById(rows, p) == {r \in rows : r.id # NumericAffinity(p)}

\* the parameter list of the INSERT INTO bookings statement, as stored
\* (destination_id 0 stands for NULL)
BookingRow(id, b) ==
    [id |-> id, name |-> b.name, email |-> b.email, phone |-> Null,
     destination_id |-> 0,
     guests |-> IF b.guests = 0 THEN 1 ELSE b.guests,
     start_date |-> Null, end_date |-> Null, notes |-> Null]

\* the parameter list of the INSERT INTO contacts statement, as stored
ContactRow(id, b) ==
    [id |-> id, name |-> Or(b.name, Null), email |-> b.email, message |-> b.message]

\* the parameter list of the INSERT INTO destinations statement, as stored
DestinationRow(id, b) ==
    [id |-> id, name |-> b.name, summary |-> Or(b.summary, Null),
     details |-> Or(b.details, Null), region |-> Or(b.region, Null),
     image |-> Or(b.image, Null)]

\* SELECT b.*, d.name as destination_name FROM bookings b LEFT JOIN destinations d
JoinDestination(b) ==
    [id |-> b.id, name |-> b.name, email |-> b.email, phone |-> b.phone,
     destination_id |-> b.destination_id, guests |-> b.guests,
     start_date |-> b.start_date, end_date |-> b.end_date, notes |-> b.notes,
     destination_name |->
        IF \E d \in destinations : d.id = b.destination_id
        THEN (CHOOSE d \in destinations : d.id = b.destination_id).name
        ELSE Null]

\* seeding at every startup, whatever the count
ShouldSeedAlways(cnt) == cnt >= 0

\* the table is empty: !row || row.cnt === 0
ShouldSeed(cnt) == cnt = 0

\* the last response has left: the event loop runs the next handler or callback
Turn == ev.type = "none"

\* ------------------------------------------------------------- bootstrap
\* initDb, up to and including its callback: the serialized CREATE TABLE IF NOT EXISTS statements
\* and the count, then the seed rows are queued on the prepared statement (run
\* later, by StmtRunSeed) and the callback starts the listener at once
initDb ==
    /\ Turn
    /\ boot = "start"
    /\ bootConn' = TRUE
    /\ stmtQueue' = IF ShouldSeed(Cardinality(destinations)) THEN seed ELSE <<>>
    /\ boot' = "listening"
    /\ ev' = NoEvent
    /\ UNCHANGED <<destinations, bookings, contacts, seq, req, returned, created>>

\* one queued stmt.run(d) of the seed statement executes
StmtRunSeed ==
    /\ Turn
    /\ stmtQueue # <<>>
    /\ LET id == NextRowid(destinations, seq["destinations"])
           row == DestinationRow(id, Head(stmtQueue))
       IN  /\ destinations' = destinations \cup {row}
           /\ seq' = [seq EXCEPT !["destinations"] = id]
           /\ created' = [i \in DOMAIN created \cup {id} |->
                              IF i = id THEN row ELSE created[i]]
    /\ stmtQueue' = Tail(stmtQueue)
    /\ ev' = NoEvent
    /\ UNCHANGED <<bookings, contacts, boot, bootConn, req, returned>>

\* the process ends once its statements have run and its requests are answered,
\* and is started again on the same database file
Restart ==
    /\ Turn
    /\ boot = "listening"
    /\ stmtQueue = <<>>
    /\ \A s \in Slots : req[s].pc = "idle"
    /\ boot' = "start"
    /\ bootConn' = FALSE
    /\ ev' = NoEvent
    /\ UNCHANGED <<destinations, bookings, contacts, seq, stmtQueue, req, returned,
                   created>>

\* --------------------------------------------------------------- requests
\* the listener accepts a request into slot s, the first free slot
Accepts(s) ==
    /\ Turn
    /\ boot = "listening"
    /\ req[s].pc = "idle"
    /\ \A t \in Slots : t < s => req[t].pc # "idle"

\* the callback that slot s waits for at pc runs
Calls(s, pc, route) == Turn /\ req[s].pc = pc /\ req[s].route = route

\* rows inserted through the API so far, and inserts under way
SeedNames == {seed[i].name : i \in 1..Len(seed)}
ApiInserts ==
    seq["bookings"] + seq["contacts"]
    + Cardinality({d \in destinations : d.name \notin SeedNames})
    + Cardinality({s \in Slots : req[s].pc = "run" /\ req[s].route # DELETE_BOOKING})
CanInsert == ApiInserts < MaxInserts

\* the request of slot s is answered: the slot is free again
Done(s) == [req EXCEPT ![s] = Idle]

\* what a response event keeps of the request r it answers; it is sent by the
\* handler itself (r has queued no statement) or by a statement's callback
ResponseTo(r) ==
    [NoEvent EXCEPT !.type = "response", !.by = IF r.pc = "idle" THEN "handler" ELSE "callback",
                    !.route = r.route, !.param = r.param,
                    !.body = r.body, !.lastID = r.lastID]

\* res.status(status).json({ error: ... })
Answer(e, status, error) == [e EXCEPT !.status = status, !.error = error]

\* res.json({ data: rows }) / res.status(201).json({ data: row })
AnswerData(e, status, rows) == [e EXCEPT !.status = status, !.data = rows]

\* requireAdmin answering 401
Unauthorized(route, header, query) ==
    [NoEvent EXCEPT !.type = "response", !.by = "requireAdmin", !.route = route,
                    !.header = header, !.query = query, !.status = 401,
                    !.error = "unauthorized"]

\* requireAdmin calling next()
Admitted(route, header, query) ==
    [NoEvent EXCEPT !.type = "admit", !.by = "requireAdmin", !.route = route,
                    !.header = header, !.query = query]

DbUnchanged == UNCHANGED <<destinations, bookings, contacts, seq, created>>
ProcUnchanged == UNCHANGED <<boot, stmtQueue, bootConn>>

\* app.get('/api/destinations'): opens a connection and queues db.all
GetDestinations(s) ==
    /\ Accepts(s)
    /\ req' = [req EXCEPT ![s] = [Idle EXCEPT !.pc = "all", !.route = GET_DESTINATIONS]]
    /\ ev' = NoEvent
    /\ DbUnchanged /\ ProcUnchanged /\ UNCHANGED returned

\* the db.all callback of GET /api/destinations: db.close(), then the response
GetDestinationsAll(s) ==
    /\ Calls(s, "all", GET_DESTINATIONS)
    /\ \E err \in BOOLEAN :
         LET e == [ResponseTo(req[s]) EXCEPT !.failed = err]
         IN  ev' = IF err THEN Answer(e, 500, "db error")
                   ELSE AnswerData(e, 200, destinations)
    /\ req' = Done(s)
    /\ DbUnchanged /\ ProcUnchanged /\ UNCHANGED returned

\* app.get('/api/destinations/:id'): opens a connection and queues db.get
GetDestination(s) ==
    /\ Accepts(s)
    /\ \E p \in IdParams :
         req' = [req EXCEPT ![s] =
                   [Idle EXCEPT !.pc = "get", !.route = GET_DESTINATION, !.param = p]]
    /\ ev' = NoEvent
    /\ DbUnchanged /\ ProcUnchanged /\ UNCHANGED returned

\* the db.get callback of GET /api/destinations/:id: db.close(), then the response
GetDestinationGet(s) ==
    /\ Calls(s, "get", GET_DESTINATION)
    /\ \E err \in BOOLEAN :
         LET e == [ResponseTo(req[s]) EXCEPT !.failed = err]
             row == SelectById(destinations, req[s].param)
         IN  ev' = IF err THEN Answer(e, 500, "db error")
                   ELSE IF row = {} THEN Answer(e, 404, "not found")
                   ELSE AnswerData(e, 200, row)
    /\ req' = Done(s)
    /\ DbUnchanged /\ ProcUnchanged /\ UNCHANGED returned

\* app.post('/api/bookings'): validation, then a connection, prepare and stmt.run
PostBookings(s) ==
    /\ Accepts(s)
    /\ \E b \in BookingBodies :
         LET r == [Idle EXCEPT !.route = POST_BOOKINGS, !.body = b]
         IN  IF BookingInvalid(b.name, b.email)
             THEN /\ ev' = Answer(ResponseTo(r), 400, "name and email are required")
                  /\ req' = req
             ELSE /\ CanInsert
                  /\ ev' = NoEvent
                  /\ req' = [req EXCEPT ![s] = [r EXCEPT !.pc = "run"]]
    /\ DbUnchanged /\ ProcUnchanged /\ UNCHANGED returned

\* the stmt.run callback of POST /api/bookings: on an error it answers 500 and
\* returns (the connection stays open); else it queues the re-read of this.lastID
PostBookingsRun(s) ==
    /\ Calls(s, "run", POST_BOOKINGS)
    /\ \E err \in BOOLEAN :
         IF err
         THEN /\ ev' = Answer([ResponseTo(req[s]) EXCEPT !.failed = TRUE, !.conn = TRUE],
                              500, "db error")
              /\ req' = Done(s)
              /\ UNCHANGED <<bookings, seq>>
         ELSE LET id == NextRowid(bookings, seq["bookings"])
              IN  /\ bookings' = bookings \cup {BookingRow(id, req[s].body)}
                  /\ seq' = [seq EXCEPT !["bookings"] = id]
                  /\ req' = [req EXCEPT ![s] = [req[s] EXCEPT !.pc = "get", !.lastID = id]]
                  /\ ev' = NoEvent
    /\ UNCHANGED <<destinations, contacts, created, returned>> /\ ProcUnchanged

\* the db.get callback of POST /api/bookings: err is not looked at; the connection
\* is closed and 201 carries whatever row the re-read gave
PostBookingsGet(s) ==
    /\ Calls(s, "get", POST_BOOKINGS)
    /\ \E err \in BOOLEAN :
         LET row == IF err THEN {}
                    ELSE {b \in bookings : b.id = req[s].lastID}
         IN  /\ ev' = AnswerData([ResponseTo(req[s]) EXCEPT !.failed = err], 201, row)
             /\ returned' = returned \cup {b.id : b \in row}
    /\ req' = Done(s)
    /\ DbUnchanged /\ ProcUnchanged

\* app.get('/api/bookings', requireAdmin, ...): gate, then a connection and db.all
GetBookings(s) ==
    /\ Accepts(s)
    /\ \E c \in Credentials :
         IF ~requireAdmin(c[1], c[2])
         THEN /\ ev' = Unauthorized(GET_BOOKINGS, c[1], c[2])
              /\ req' = req
         ELSE /\ ev' = Admitted(GET_BOOKINGS, c[1], c[2])
              /\ req' = [req EXCEPT ![s] =
                           [Idle EXCEPT !.pc = "all", !.route = GET_BOOKINGS]]
    /\ DbUnchanged /\ ProcUnchanged /\ UNCHANGED returned

\* the db.all callback of GET /api/bookings: db.close(), then the response
GetBookingsAll(s) ==
    /\ Calls(s, "all", GET_BOOKINGS)
    /\ \E err \in BOOLEAN :
         LET e == [ResponseTo(req[s]) EXCEPT !.failed = err]
         IN  ev' = IF err THEN Answer(e, 500, "db error")
                   ELSE AnswerData(e, 200, {JoinDestination(b) : b \in bookings})
    /\ req' = Done(s)
    /\ DbUnchanged /\ ProcUnchanged /\ UNCHANGED returned

\* app.post('/api/contact'): validation, then a connection, prepare and stmt.run
PostContact(s) ==
    /\ Accepts(s)
    /\ \E b \in ContactBodies :
         LET r == [Idle EXCEPT !.route = POST_CONTACT, !.body = b]
         IN  IF ContactInvalid(b.email, b.message)
             THEN /\ ev' = Answer(ResponseTo(r), 400, "email and message required")
                  /\ req' = req
             ELSE /\ CanInsert
                  /\ ev' = NoEvent
                  /\ req' = [req EXCEPT ![s] = [r EXCEPT !.pc = "run"]]
    /\ DbUnchanged /\ ProcUnchanged /\ UNCHANGED returned

\* the stmt.run callback of POST /api/contact
PostContactRun(s) ==
    /\ Calls(s, "run", POST_CONTACT)
    /\ \E err \in BOOLEAN :
         IF err
         THEN /\ ev' = Answer([ResponseTo(req[s]) EXCEPT !.failed = TRUE, !.conn = TRUE],
                              500, "db error")
              /\ req' = Done(s)
              /\ UNCHANGED <<contacts, seq>>
         ELSE LET id == NextRowid(contacts, seq["contacts"])
              IN  /\ contacts' = contacts \cup {ContactRow(id, req[s].body)}
                  /\ seq' = [seq EXCEPT !["contacts"] = id]
                  /\ req' = [req EXCEPT ![s] = [req[s] EXCEPT !.pc = "get", !.lastID = id]]
                  /\ ev' = NoEvent
    /\ UNCHANGED <<destinations, bookings, created, returned>> /\ ProcUnchanged

\* the db.get callback of POST /api/contact
PostContactGet(s) ==
    /\ Calls(s, "get", POST_CONTACT)
    /\ \E err \in BOOLEAN :
         LET row == IF err THEN {}
                    ELSE {c \in contacts : c.id = req[s].lastID}
         IN  ev' = AnswerData([ResponseTo(req[s]) EXCEPT !.failed = err], 201, row)
    /\ req' = Done(s)
    /\ DbUnchanged /\ ProcUnchanged /\ UNCHANGED returned

\* app.get('/api/contacts', requireAdmin, ...): gate, then a connection and db.all
GetContacts(s) ==
    /\ Accepts(s)
    /\ \E c \in Credentials :
         IF ~requireAdmin(c[1], c[2])
         THEN /\ ev' = Unauthorized(GET_CONTACTS, c[1], c[2])
              /\ req' = req
         ELSE /\ ev' = Admitted(GET_CONTACTS, c[1], c[2])
              /\ req' = [req EXCEPT ![s] =
                           [Idle EXCEPT !.pc = "all", !.route = GET_CONTACTS]]
    /\ DbUnchanged /\ ProcUnchanged /\ UNCHANGED returned

\* the db.all callback of GET /api/contacts: db.close(), then the response
GetContactsAll(s) ==
    /\ Calls(s, "all", GET_CONTACTS)
    /\ \E err \in BOOLEAN :
         LET e == [ResponseTo(req[s]) EXCEPT !.failed = err]
         IN  ev' = IF err THEN Answer(e, 500, "db error")
                   ELSE AnswerData(e, 200, contacts)
    /\ req' = Done(s)
    /\ DbUnchanged /\ ProcUnchanged /\ UNCHANGED returned

\* app.post('/api/destinations', requireAdmin, ...): gate, validation, then a
\* connection, prepare and stmt.run
PostDestinations(s) ==
    /\ Accepts(s)
    /\ \E c \in Credentials :
         IF ~requireAdmin(c[1], c[2])
         THEN /\ ev' = Unauthorized(POST_DESTINATIONS, c[1], c[2])
              /\ req' = req
         ELSE \E b \in DestinationBodies :
                LET r == [Idle EXCEPT !.route = POST_DESTINATIONS, !.body = b]
                IN  IF DestinationInvalid(b.name)
                    THEN /\ ev' = [Answer(ResponseTo(r), 400, "name required")
                                     EXCEPT !.header = c[1], !.query = c[2]]
                         /\ req' = req
                    ELSE /\ CanInsert
                         /\ ev' = Admitted(POST_DESTINATIONS, c[1], c[2])
                         /\ req' = [req EXCEPT ![s] = [r EXCEPT !.pc = "run"]]
    /\ DbUnchanged /\ ProcUnchanged /\ UNCHANGED returned

\* the stmt.run callback of POST /api/destinations
PostDestinationsRun(s) ==
    /\ Calls(s, "run", POST_DESTINATIONS)
    /\ \E err \in BOOLEAN :
         IF err
         THEN /\ ev' = Answer([ResponseTo(req[s]) EXCEPT !.failed = TRUE, !.conn = TRUE],
                              500, "db error")
              /\ req' = Done(s)
              /\ UNCHANGED <<destinations, seq, created>>
         ELSE LET id == NextRowid(destinations, seq["destinations"])
                  row == DestinationRow(id, req[s].body)
              IN  /\ destinations' = destinations \cup {row}
                  /\ seq' = [seq EXCEPT !["destinations"] = id]
                  /\ created' = [i \in DOMAIN created \cup {id} |->
                                     IF i = id THEN row ELSE created[i]]
                  /\ req' = [req EXCEPT ![s] = [req[s] EXCEPT !.pc = "get", !.lastID = id]]
                  /\ ev' = NoEvent
    /\ UNCHANGED <<bookings, contacts, returned>> /\ ProcUnchanged

\* the db.get callback of POST /api/destinations
PostDestinationsGet(s) ==
    /\ Calls(s, "get", POST_DESTINATIONS)
    /\ \E err \in BOOLEAN :
         LET row == IF err THEN {}
                    ELSE {d \in destinations : d.id = req[s].lastID}
         IN  ev' = AnswerData([ResponseTo(req[s]) EXCEPT !.failed = err], 201, row)
    /\ req' = Done(s)
    /\ DbUnchanged /\ ProcUnchanged /\ UNCHANGED returned

\* app.delete('/api/bookings/:id', requireAdmin, ...): gate, then a connection
\* and db.run
DeleteBooking(s) ==
    /\ Accepts(s)
    /\ \E c \in Credentials :
         IF ~requireAdmin(c[1], c[2])
         THEN /\ ev' = Unauthorized(DELETE_BOOKING, c[1], c[2])
              /\ req' = req
         ELSE \E p \in IdParams :
                /\ ev' = Admitted(DELETE_BOOKING, c[1], c[2])
                /\ req' = [req EXCEPT ![s] =
                             [Idle EXCEPT !.pc = "run", !.route = DELETE_BOOKING,
                                          !.param = p]]
    /\ DbUnchanged /\ ProcUnchanged /\ UNCHANGED returned

\* the db.run callback of DELETE /api/bookings/:id: db.close(), then this.changes
\* decides between 404 and 200
DeleteBookingRun(s) ==
    /\ Calls(s, "run", DELETE_BOOKING)
    /\ \E err \in BOOLEAN :
         LET e == [ResponseTo(req[s]) EXCEPT !.failed = err]
             left == DeleteById(bookings, req[s].param)
             changes == Cardinality(bookings) - Cardinality(left)
         IN  IF err
             THEN /\ ev' = Answer(e, 500, "db error")
                  /\ UNCHANGED bookings
             ELSE /\ bookings' = left
                  /\ ev' = IF changes = 0 THEN Answer(e, 404, "not found")
                           ELSE [e EXCEPT !.status = 200, !.success = TRUE]
    /\ req' = Done(s)
    /\ UNCHANGED <<destinations, contacts, seq, created, returned>> /\ ProcUnchanged

\* app.get('/api/health')
GetHealth(s) ==
    /\ Accepts(s)
    /\ ev' = [NoEvent EXCEPT !.type = "response", !.by = "handler", !.route = GET_HEALTH,
                            !.status = 200]
    /\ req' = req
    /\ DbUnchanged /\ ProcUnchanged /\ UNCHANGED returned

\* the response, or the gate's decision, of the last step is with the client
Sent ==
    /\ ev.type # "none"
    /\ ev' = NoEvent
    /\ UNCHANGED <<destinations, bookings, contacts, seq, boot, stmtQueue, bootConn,
                   req, returned, created>>

Next ==
    \/ Sent
    \/ initDb
    \/ StmtRunSeed
    \/ Restart
    \/ \E s \in Slots :
         \/ GetDestinations(s) \/ GetDestinationsAll(s)
         \/ GetDestination(s) \/ GetDestinationGet(s)
         \/ PostBookings(s) \/ PostBookingsRun(s) \/ PostBookingsGet(s)
         \/ GetBookings(s) \/ GetBookingsAll(s)
         \/ PostContact(s) \/ PostContactRun(s) \/ PostContactGet(s)
         \/ GetContacts(s) \/ GetContactsAll(s)
         \/ PostDestinations(s) \/ PostDestinationsRun(s) \/ PostDestinationsGet(s)
         \/ DeleteBooking(s) \/ DeleteBookingRun(s)
         \/ GetHealth(s)

Spec == Init /\ [][Next]_vars

\* ================================================================ claims
\* a required field the request lacks: absent or empty
Missing(v) == v = NoVal \/ v = ""

\* the handler of the request that ev answers did not run: nothing was opened,
\* inserted or read for it
HandlerNotRun ==
    /\ ~ev.conn /\ ~ev.failed /\ ev.lastID = 0 /\ ev.data = {} /\ ~ev.success

TablesUnchanged == UNCHANGED <<destinations, bookings, contacts, seq>>

\* ev is a response sent without any statement having been queued
SentBeforeStorage(route) ==
    ev.type = "response" /\ ev.route = route /\ ev.by = "handler"

\* C1 (state part): a create request lacking a required field is answered 400
\* with no storage access, and no request waiting on a statement lacks one
RejectsIncomplete ==
    /\ SentBeforeStorage(POST_BOOKINGS) => ev.status = 400 /\ HandlerNotRun
    /\ SentBeforeStorage(POST_CONTACT) => ev.status = 400 /\ HandlerNotRun
    /\ SentBeforeStorage(POST_DESTINATIONS) => ev.status = 400 /\ HandlerNotRun
    /\ ev.type = "response" /\ ev.status = 400 =>
         CASE ev.route = POST_BOOKINGS -> Missing(ev.body.name) \/ Missing(ev.body.email)
           [] ev.route = POST_CONTACT -> Missing(ev.body.email) \/ Missing(ev.body.message)
           [] ev.route = POST_DESTINATIONS -> Missing(ev.body.name)
           [] OTHER -> FALSE
    /\ \A s \in Slots :
         /\ req[s].route = POST_BOOKINGS =>
              ~Missing(req[s].body.name) /\ ~Missing(req[s].body.email)
         /\ req[s].route = POST_CONTACT =>
              ~Missing(req[s].body.email) /\ ~Missing(req[s].body.message)
         /\ req[s].route = POST_DESTINATIONS => ~Missing(req[s].body.name)

\* C1: for every create request that lacks a required field the response is 400
\* and no storage access happens: all three tables are the same after the request
\* as before it.
C1_ValidationBeforeStorage ==
    /\ []RejectsIncomplete
    /\ [][ev'.type = "response" /\ ev'.status = 400 => TablesUnchanged /\ req' = req]_vars

\* C1 witness: a booking without a name was answered 400 while the table held a row
C1_Witness ==
    /\ ev.type = "response" /\ ev.route = POST_BOOKINGS /\ ev.status = 400
    /\ Missing(ev.body.name)
    /\ bookings # {}

\* C2: every valid booking submission, in any interleaving with other requests, is
\* answered 201 with the stored record, whose identifier is a positive integer no
\* earlier create-booking response returned.  (Stated for the submissions none of
\* whose statements failed.)
C2_CreateBookingReturnsStoredRecord ==
    /\ [](ev.type = "response" /\ ev.route = POST_BOOKINGS /\ ev.by = "callback"
            /\ ~ev.failed =>
          /\ ev.status = 201
          /\ ev.lastID > 0
          /\ \E row \in ev.data :
               /\ ev.data = {row}
               /\ row.id = ev.lastID
               /\ row.name = ev.body.name /\ row.email = ev.body.email
               /\ row.guests = IF ev.body.guests = 0 THEN 1 ELSE ev.body.guests)
    /\ [][ev'.type = "response" /\ ev'.route = POST_BOOKINGS /\ ev'.status = 201 =>
            \A row \in ev'.data : row.id \notin returned]_vars

\* C3: an authorized delete answers by its effect: 200 with success when a booking
\* with the identifier exists as the statement runs, and the table loses exactly
\* that row; 404 when none exists, and the table is unchanged; the other two
\* tables never change; once an identifier's delete was answered 200 no booking
\* carries that identifier, so a concurrent delete of it gets 404.
C3_DeleteMatchesEffect ==
    /\ [][\A s \in Slots :
            req[s].pc = "run" /\ req[s].route = DELETE_BOOKING /\ req'[s].pc = "idle" =>
              LET id == NumericAffinity(req[s].param)
                  hit == {b \in bookings : b.id = id}
              IN  /\ destinations' = destinations /\ contacts' = contacts
                  /\ ev'.type = "response" /\ ev'.route = DELETE_BOOKING
                  /\ ev'.failed => ev'.status = 500 /\ bookings' = bookings
                  /\ ~ev'.failed /\ hit # {} =>
                       /\ ev'.status = 200 /\ ev'.success
                       /\ Cardinality(hit) = 1
                       /\ bookings' = bookings \ hit
                  /\ ~ev'.failed /\ hit = {} =>
                       /\ ev'.status = 404 /\ ~ev'.success
                       /\ bookings' = bookings]_vars
    /\ [][\A b \in bookings' \ bookings : b.id > seq["bookings"]]_vars

\* C3 witness: a delete was answered 200 while a second delete of the same
\* identifier waits for its statement
C3_Witness ==
    /\ ev.type = "response" /\ ev.route = DELETE_BOOKING /\ ev.status = 200
    /\ \E s \in Slots :
         /\ req[s].pc = "run" /\ req[s].route = DELETE_BOOKING
         /\ NumericAffinity(req[s].param) = NumericAffinity(ev.param)

ProtectedRoutes == {GET_BOOKINGS, GET_CONTACTS, POST_DESTINATIONS, DELETE_BOOKING}

\* C4: on every protected route a request with no token or with a token other than
\* the secret gets 401, its handler never executes and the tables are unchanged; a
\* request whose token is the secret reaches the handler.
C4_GateProtectsRoutes ==
    /\ [](ev.route \in ProtectedRoutes /\ ev.by \in {"requireAdmin", "handler"} =>
          /\ ev.header # ADMIN_TOKEN /\ ev.query # ADMIN_TOKEN =>
               ev.type = "response" /\ ev.status = 401 /\ HandlerNotRun
          /\ ev.header = ADMIN_TOKEN => ev.status # 401
          /\ ev.status = 401 => HandlerNotRun)
    /\ [][ev'.type = "response" /\ ev'.status = 401 => TablesUnchanged /\ req' = req]_vars
    /\ [][\A s \in Slots :
            req[s].pc = "idle" /\ req'[s].pc # "idle" /\ req'[s].route \in ProtectedRoutes =>
              /\ ev'.type = "admit" /\ ev'.route = req'[s].route
              /\ ADMIN_TOKEN \in {ev'.header, ev'.query}]_vars

\* C4 witness: a delete with a wrong token was answered 401 while a booking exists
C4_Witness ==
    /\ ev.type = "response" /\ ev.route = DELETE_BOOKING /\ ev.status = 401
    /\ ev.header = "wrong-token"
    /\ bookings # {}

\* the token the gate is to compare: the header's, the query parameter's only when
\* no header token is supplied
ExtractedToken(header, query) == IF Missing(header) THEN query ELSE header

SeedOrder == <<"Tsomgo Lake", "Nathula Pass", "Yuksom">>

\* the rows of the table that carry a seed record's name
SeedRows == {d \in destinations : \E i \in 1..3 : d.name = SeedOrder[i]}

\* the identifier of the row carrying seed record i
SeedId(i) == (CHOOSE d \in SeedRows : d.name = SeedOrder[i]).id

\* C5 (state part): no seed record is ever in the table twice; once the bootstrap's
\* inserts have run the table holds each seed record once, with ascending
\* identifiers in seed order, and these are 1, 2, 3 when nothing else was created
SeedsOnce ==
    /\ \A d, e \in SeedRows : d.name = e.name => d = e
    /\ boot = "listening" => Cardinality(SeedRows) + Len(stmtQueue) = 3
    /\ boot = "listening" /\ stmtQueue = <<>> =>
         /\ SeedId(1) < SeedId(2) /\ SeedId(2) < SeedId(3)
         /\ destinations = SeedRows => {d.id : d \in destinations} = {1, 2, 3}

C6_ListenAfterBootstrap ==
    /\ (\E s \in Slots : req[s].pc # "idle") \/ ev.type # "none" => stmtQueue = <<>>
    /\ ev.type = "response" /\ ev.route = GET_DESTINATIONS /\ ev.status = 200 =>
         \A i \in 1..3 : \E d \in ev.data : d.name = SeedOrder[i]

\* C7 (state part): a read by identifier that did not fail answers 404 when no
\* destination was ever created with the identifier and else 200 with the record as
\* it was created; the table is exactly the records as created
ReadsAsCreated ==
    /\ ev.type = "response" /\ ev.route = GET_DESTINATION /\ ~ev.failed =>
         LET id == NumericAffinity(ev.param)
         IN  IF id \in DOMAIN created
             THEN ev.status = 200 /\ ev.data = {created[id]}
             ELSE ev.status = 404 /\ ev.data = {}
    /\ destinations = {created[i] : i \in DOMAIN created}
    /\ \A i \in DOMAIN created : created[i].id = i

\* C7: GET /api/destinations/:id answers 404 for an identifier that matches no
\* destination and, for an existing one, exactly the record as it was created, after
\* any intervening requests: no operation updates or deletes a destination or
\* changes its identifier.
C7_DestinationReadAndFrame ==
    /\ []ReadsAsCreated
    /\ [][\A d \in destinations : d \in destinations']_vars
    /\ [][\A i \in DOMAIN created : i \in DOMAIN created' /\ created'[i] = created[i]]_vars

\* C7 witness: a read by identifier returned a destination created through the API
\* while a booking had been made in between
C7_Witness ==
    /\ ev.type = "response" /\ ev.route = GET_DESTINATION /\ ev.status = 200
    /\ \E d \in ev.data : d.name = "Pelling"
    /\ seq["bookings"] > 0

\* C8: whenever a storage statement of a handler fails (insert, re-read, select or
\* delete) the response is 500 with an error field; no handler answers 200 or 201
\* after one of its statements failed.
C8_StorageErrorAnswers500 ==
    ev.type = "response" /\ ev.failed => ev.status = 500 /\ ev.error # ""

\* C9: every handler that opens a connection closes it on every exit path: once
\* the response is sent the connection opened for the request is closed.
C9_ConnectionClosedOnResponse ==
    ev.type = "response" => ~ev.conn

====
